---- MODULE Spec2Model ----
(***************************************************************************)
(* State-machine model of scripts/run.py: the command-line harness that    *)
(* drives the Renderer (pyngp Testbed) through a bounded training loop, an *)
(* optional snapshot save, an optional evaluation run over a test          *)
(* manifest and an optional screenshot batch.                              *)
(*                                                                         *)
(* The script is one sequential program; pc is its position and every      *)
(* action is one block of consecutive statements.  The Renderer is opaque: *)
(* what frame(), want_repl(), repl() and the error metric return is a      *)
(* nondeterministic choice from small sets.                                *)
(***************************************************************************)
EXTENDS Integers, Sequences, FiniteSets, TLC

(* ------------------------------ bounds -------------------------------- *)
\* largest training step the Renderer reports
MaxStep == 2
\* frame ticks explored in one run of the training loop
MaxTicks == 3
\* frames in a transforms manifest
MaxFrames == 2
\* width and height of the reference images on disk
RefW == 4
RefH == 3

(* ------------------------- program constants -------------------------- *)
\* run.py:149  n_steps = 100000 when --n_steps is negative
DefaultSteps == 100000
\* run.py:185  minpsnr = 1000
MinPsnrInit == 1000
\* run.py:186  maxpsnr = 0
MaxPsnrInit == 0
\* run.py:188  spp = 8
EvalSpp == 8
\* run.py:46   --screenshot_spp default
ScreenshotSpp == 16

VARIABLES
    args,               \* parsed command line (run.py:28-55)
    pc,                 \* position in the script
    training_step,      \* testbed.training_step
    shall_train,        \* testbed.shall_train
    camera,             \* pose last given to testbed.set_nerf_camera_matrix
    n_steps,            \* run.py:147
    old_training_step,  \* run.py:146
    t_n,                \* the progress display's accumulated total (tqdm .n)
    t_log,              \* calls made on the progress display, in order
    ticks,              \* number of testbed.frame() calls so far
    trace,              \* calls made on the Renderer and on write_image, in order
    test_transforms,    \* manifest of --test_transforms (a dict)
    ref_transforms,     \* manifest of --screenshot_transforms ({} when absent)
    disk,               \* files that exist on disk under data_dir
    i,                  \* evaluation / screenshot loop index
    ref_fname,          \* reference image path resolved for the current frame
    acc,                \* totmse, totpsnr, totssim, totcount, minpsnr, maxpsnr
    psnrs,              \* per-frame PSNR values computed so far
    summary,            \* what the evaluation prints at its end
    screenshot_frames   \* args.screenshot_frames as the loop iterates it

vars == <<args, pc, training_step, shall_train, camera, n_steps,
          old_training_step, t_n, t_log, ticks, trace, test_transforms,
          ref_transforms, disk, i, ref_fname, acc, psnrs, summary,
          screenshot_frames>>

trainVars == <<training_step, shall_train, n_steps, old_training_step, t_n,
               t_log, ticks>>
evalVars == <<ref_fname, acc, psnrs, summary>>
inputVars == <<args, test_transforms, ref_transforms, disk>>

(* --------------------------- small helpers ---------------------------- *)
\* the empty dict {} (run.py:117), also used for "nothing printed yet"
EmptyDict == [k \in {} |-> 0]
Last(s) == s[Len(s)]
\* all sequences over S of length 0..n
SeqsUpTo(S, n) == UNION {[1..k -> S] : k \in 0..n}
\* python's `a or b` on integers: a when a is non-zero, b otherwise
Or(a, b) == IF a # 0 THEN a ELSE b

(* ============================ training loop =========================== *)
\* run.py:131  testbed.shall_train = args.train if args.gui else True
InitialShallTrain(a) == IF a.gui THEN a.train ELSE TRUE

\* run.py:147-149
NormalizeSteps(n) == IF n < 0 THEN DefaultSteps ELSE n

\* run.py:151  if n_steps > 0:
LoopEnabled(n) == n > 0

LimitReachedStrict(step, limit) == step > limit
\* run.py:157  if testbed.training_step >= n_steps:
LimitReached(step, limit) == step >= limit

NeedsResetOnlyFirst(cur, old) == old = 0
\* run.py:164  if testbed.training_step < old_training_step or old_training_step == 0:
NeedsReset(cur, old) == cur < old \/ old = 0

StepDeltaAbsolute(cur, old) == cur
\* run.py:168  t.update(testbed.training_step - old_training_step)
StepDelta(cur, old) == cur - old

LoopPcs == {"frame", "repl", "check", "reset", "update"}

TrainingSetupCheckFirst ==
    /\ pc = "start"
    /\ old_training_step' = 0
    /\ n_steps' = NormalizeSteps(args.n_steps)
    /\ t_n' = 0
    /\ pc' = IF LoopEnabled(n_steps') THEN "check" ELSE "save"
    /\ UNCHANGED <<training_step, shall_train, t_log, ticks, trace, camera,
                   i, screenshot_frames>>
    /\ UNCHANGED evalVars
    /\ UNCHANGED inputVars

\* run.py:146-152  old_training_step = 0; n_steps; if n_steps > 0: with tqdm(...)
TrainingSetup ==
    /\ pc = "start"
    /\ old_training_step' = 0
    /\ n_steps' = NormalizeSteps(args.n_steps)
    /\ t_n' = 0
    /\ pc' = IF LoopEnabled(n_steps') THEN "frame" ELSE "save"
    /\ UNCHANGED <<training_step, shall_train, t_log, ticks, trace, camera,
                   i, screenshot_frames>>
    /\ UNCHANGED evalVars
    /\ UNCHANGED inputVars

\* run.py:153  while testbed.frame():
\* The Renderer's tick may move training_step anywhere (it is not monotonic:
\* a reset lowers it) and, with a window, the user may toggle training.
Frame ==
    /\ pc = "frame"
    /\ ticks < MaxTicks
    /\ ticks' = ticks + 1
    /\ trace' = Append(trace, <<"frame">>)
    /\ \E step \in 0..MaxStep : training_step' = step
    /\ \E st \in (IF args.gui THEN BOOLEAN ELSE {shall_train}) : shall_train' = st
    /\ \E keep_running \in BOOLEAN :
          pc' = IF keep_running THEN "repl" ELSE "save"
    /\ UNCHANGED <<n_steps, old_training_step, t_n, t_log, camera, i,
                   screenshot_frames>>
    /\ UNCHANGED evalVars
    /\ UNCHANGED inputVars

\* run.py:154-155  if testbed.want_repl(): repl(testbed)
\* repl is an opaque interactive hook on the Renderer: it may move the step.
WantRepl ==
    /\ pc = "repl"
    /\ \E want \in BOOLEAN :
          IF want
          THEN /\ trace' = Append(trace, <<"repl">>)
               /\ \E step \in 0..MaxStep : training_step' = step
          ELSE UNCHANGED <<trace, training_step>>
    /\ pc' = "check"
    /\ UNCHANGED <<shall_train, n_steps, old_training_step, t_n, t_log, ticks,
                   camera, i, screenshot_frames>>
    /\ UNCHANGED evalVars
    /\ UNCHANGED inputVars

\* run.py:157-161
CheckDone ==
    /\ pc = "check"
    /\ IF LimitReached(training_step, n_steps)
       THEN IF args.gui
            THEN shall_train' = FALSE /\ pc' = "reset"
            ELSE UNCHANGED shall_train /\ pc' = "save"
       ELSE UNCHANGED shall_train /\ pc' = "reset"
    /\ UNCHANGED <<training_step, n_steps, old_training_step, t_n, t_log,
                   ticks, trace, camera, i, screenshot_frames>>
    /\ UNCHANGED evalVars
    /\ UNCHANGED inputVars

\* run.py:164-166
ProgressReset ==
    /\ pc = "reset"
    /\ IF NeedsReset(training_step, old_training_step)
       THEN /\ old_training_step' = 0
            /\ t_n' = 0
            /\ t_log' = Append(t_log, <<"reset", 0>>)
       ELSE UNCHANGED <<old_training_step, t_n, t_log>>
    /\ pc' = "update"
    /\ UNCHANGED <<training_step, shall_train, n_steps, ticks, trace, camera,
                   i, screenshot_frames>>
    /\ UNCHANGED evalVars
    /\ UNCHANGED inputVars

\* run.py:168-170
ProgressUpdate ==
    /\ pc = "update"
    /\ LET delta == StepDelta(training_step, old_training_step) IN
          /\ t_n' = t_n + delta
          /\ t_log' = Append(t_log, <<"update", delta>>)
    /\ old_training_step' = training_step
    /\ pc' = "frame"
    /\ UNCHANGED <<training_step, shall_train, n_steps, ticks, trace, camera,
                   i, screenshot_frames>>
    /\ UNCHANGED evalVars
    /\ UNCHANGED inputVars

\* run.py:172-174
SaveSnapshot ==
    /\ pc = "save"
    /\ trace' = IF args.save_snapshot
                THEN Append(trace, <<"save_snapshot">>)
                ELSE trace
    /\ pc' = "eval"
    /\ UNCHANGED <<camera, i, screenshot_frames>>
    /\ UNCHANGED trainVars
    /\ UNCHANGED evalVars
    /\ UNCHANGED inputVars

(* ============================== evaluation ============================ *)
(* A path is a sequence of tokens in which "." and "/" are tokens of their *)
(* own, so that `"." in p`, `p + ".png"`, os.path.join and os.path.basename *)
(* are computed on it the way python computes them on the string.          *)
Ext(e) == <<".", e>>

\* run.py:198  if "." not in p:
HasDot(p) == \E k \in 1..Len(p) : p[k] = "."

\* os.path.join(dir, p) for a relative p (run.py:200, 258)
Join(dir, p) == IF dir = <<>> THEN p ELSE dir \o <<"/">> \o p

\* run.py:180  data_dir = os.path.dirname(args.test_transforms)
data_dir == <<"data">>

\* os.path.basename(p) (run.py:258): what follows the last "/"
RECURSIVE Basename(_)
Basename(p) ==
    IF \E k \in 1..Len(p) : p[k] = "/"
    THEN Basename(Tail(p))
    ELSE p

\* run.py:197-208  the reference image path the evaluation reads
ResolveRef(file_path, files) ==
    LET p  == IF ~HasDot(file_path) THEN file_path \o Ext("png") ELSE file_path
        c0 == Join(data_dir, p)
        c1 == Join(data_dir, p \o Ext("png"))
        c2 == Join(data_dir, p \o Ext("jpg"))
        c3 == Join(data_dir, p \o Ext("jpeg"))
        c4 == Join(data_dir, p \o Ext("exr"))
    IN  IF c0 \in files THEN c0
        ELSE IF c1 \in files THEN c1
        ELSE IF c2 \in files THEN c2
        ELSE IF c3 \in files THEN c3
        ELSE c4

StripLastRowKeepAll(m) == m
\* run.py:214, 257  np.matrix(m)[:-1,:]
StripLastRow(m) == SubSeq(m, 1, Len(m) - 1)

\* a transform_matrix with n rows; row r of matrix k is the token <<k, r>>
Mat(k, n) == [r \in 1..n |-> <<k, r>>]

\* the value mse2psnr gives for mse = 0 (log of zero): above every finite PSNR
PsnrInf == 1000000

\* MSE is held in units of 1/1000; PSNR in whole dB
RECURSIVE ILog10(_)
ILog10(m) == IF m < 10 THEN 0 ELSE 1 + ILog10(m \div 10)

\* common.mse2psnr: -10 log10(mse), exact on the powers of ten
Mse2Psnr(m) == IF m = 0 THEN PsnrInf ELSE 30 - 10 * ILog10(m)

\* sums that involve the infinite PSNR stay infinite
AddPsnr(a, b) == IF a = PsnrInf \/ b = PsnrInf THEN PsnrInf ELSE a + b

\* x / (totcount or 1)  (run.py:238, 241-243), to the unit x is held in
Mean(tot, cnt) == IF tot = PsnrInf THEN PsnrInf ELSE tot \div Or(cnt, 1)

\* the MSE values compute_error may return, in units of 1/1000:
\* 0 (identical images), 0.001, 0.1 and 10.0
MseValues == {0, 1, 100, 10000}

EvalPcs == {"eval_frame", "eval_camera", "eval_render", "eval_metric",
            "eval_summary"}

\* run.py:176-195
EvalSetup ==
    /\ pc = "eval"
    /\ IF args.test_transforms
       THEN /\ acc' = [totmse |-> 0, totpsnr |-> 0, totssim |-> 0,
                       totcount |-> 0, minpsnr |-> MinPsnrInit,
                       maxpsnr |-> MaxPsnrInit]
            /\ shall_train' = FALSE
            /\ i' = 0
            /\ pc' = "eval_frame"
       ELSE /\ UNCHANGED <<acc, shall_train, i>>
            /\ pc' = "shot"
    /\ UNCHANGED <<training_step, n_steps, old_training_step, t_n, t_log,
                   ticks, trace, camera, ref_fname, psnrs, summary,
                   screenshot_frames>>
    /\ UNCHANGED inputVars

\* run.py:196-212  next frame of the manifest: resolve and read its reference
EvalResolve ==
    /\ pc = "eval_frame"
    /\ IF i < Len(test_transforms.frames)
       THEN LET frame == test_transforms.frames[i + 1]
                fname == ResolveRef(frame.file_path, disk)
            IN  /\ ref_fname' = fname
                /\ IF fname \in disk
                   THEN /\ pc' = "eval_camera"
                        /\ trace' = IF i = 0
                                    THEN Append(trace, <<"write_image", <<"ref", ".", "png">>>>)
                                    ELSE trace
                   ELSE /\ pc' = "error"
                        /\ UNCHANGED trace
       ELSE /\ pc' = "eval_summary"
            /\ UNCHANGED <<ref_fname, trace>>
    /\ UNCHANGED <<camera, i, acc, psnrs, summary, screenshot_frames>>
    /\ UNCHANGED trainVars
    /\ UNCHANGED inputVars

\* run.py:214
EvalSetCamera ==
    /\ pc = "eval_camera"
    /\ camera' = StripLastRow(test_transforms.frames[i + 1].transform_matrix)
    /\ trace' = Append(trace, <<"set_nerf_camera_matrix", camera'>>)
    /\ pc' = "eval_render"
    /\ UNCHANGED <<i, screenshot_frames>>
    /\ UNCHANGED trainVars
    /\ UNCHANGED evalVars
    /\ UNCHANGED inputVars

\* run.py:215  image = testbed.render(ref_image.shape[1], ref_image.shape[0], spp, True)
EvalRender ==
    /\ pc = "eval_render"
    /\ trace' = Append(trace, <<"render", RefW, RefH, EvalSpp>>)
    /\ pc' = "eval_metric"
    /\ UNCHANGED <<camera, i, screenshot_frames>>
    /\ UNCHANGED trainVars
    /\ UNCHANGED evalVars
    /\ UNCHANGED inputVars

\* run.py:235
MinUpdate(psnr, minpsnr) == IF psnr < minpsnr THEN psnr ELSE minpsnr
\* run.py:236
MaxUpdate(psnr, maxpsnr) == IF psnr > maxpsnr THEN psnr ELSE maxpsnr

\* run.py:216-238  debug images of the first frame, the metric, the accumulator
EvalAccumulate ==
    /\ pc = "eval_metric"
    /\ \E mse \in MseValues :
          LET ssim == 0
              psnr == Mse2Psnr(mse)
          IN  /\ acc' = [totssim  |-> acc.totssim + ssim,
                         totmse   |-> acc.totmse + mse,
                         totpsnr  |-> AddPsnr(acc.totpsnr, psnr),
                         minpsnr  |-> MinUpdate(psnr, acc.minpsnr),
                         maxpsnr  |-> MaxUpdate(psnr, acc.maxpsnr),
                         totcount |-> acc.totcount + 1]
              /\ psnrs' = Append(psnrs, psnr)
    /\ trace' = IF i = 0
                THEN trace \o << <<"write_image", <<"out", ".", "png">>>>,
                                 <<"write_image", <<"diff", ".", "png">>>> >>
                ELSE trace
    /\ i' = i + 1
    /\ pc' = "eval_frame"
    /\ UNCHANGED <<camera, ref_fname, summary, screenshot_frames>>
    /\ UNCHANGED trainVars
    /\ UNCHANGED inputVars

\* run.py:241-244  psnr_avgmse is computed and dropped; the line printed is
\* "psnr {psnr} average, psnr range {minpsnr}-{maxpsnr}, ssim {ssim}"
EvalSummary ==
    /\ pc = "eval_summary"
    /\ LET psnr_avgmse == Mse2Psnr(Mean(acc.totmse, acc.totcount))
           psnr        == Mean(acc.totpsnr, acc.totcount)
           ssim        == Mean(acc.totssim, acc.totcount)
       IN  summary' = [psnr |-> psnr, minpsnr |-> acc.minpsnr,
                       maxpsnr |-> acc.maxpsnr, ssim |-> ssim]
    /\ pc' = "shot"
    /\ UNCHANGED <<camera, i, ref_fname, acc, psnrs, trace, screenshot_frames>>
    /\ UNCHANGED trainVars
    /\ UNCHANGED inputVars

(* ============================= screenshots ============================ *)
\* --screenshot_dir, --scene and the network config's stem (run.py:135)
screenshot_dir == <<"out">>
scene == <<"fox">>
network_stem == <<"base">>

\* An entry of args.screenshot_frames is a command-line string, or an int of
\* the default range; int(idx) (run.py:254) parses the one and keeps the other.
DigitValue == [s \in {"0", "1", "2", "3", "4"} |->
                 CASE s = "0" -> 0 [] s = "1" -> 1 [] s = "2" -> 2
                   [] s = "3" -> 3 [] s = "4" -> 4]
IntOf(v) == IF v[1] = "int" THEN v[2] ELSE DigitValue[v[2]]

\* run.py:251  range(len(ref_transforms)): one index per KEY of the manifest
DefaultFrames(d) == [k \in 1..Cardinality(DOMAIN d) |-> <<"int", k - 1>>]

\* run.py:246-252
ShotSetup ==
    /\ pc = "shot"
    /\ IF args.screenshot_w # 0
       THEN IF DOMAIN ref_transforms # {}
            THEN IF args.screenshot_frames.none
                 THEN \* len(None) raises TypeError
                      /\ pc' = "error"
                      /\ UNCHANGED <<screenshot_frames, i>>
                 ELSE /\ screenshot_frames' =
                            IF Len(args.screenshot_frames.items) = 0
                            THEN DefaultFrames(ref_transforms)
                            ELSE args.screenshot_frames.items
                      /\ i' = 0
                      /\ pc' = "shot_frame"
            ELSE /\ pc' = "shot_single"
                 /\ UNCHANGED <<screenshot_frames, i>>
       ELSE /\ pc' = "done"
            /\ UNCHANGED <<screenshot_frames, i>>
    /\ UNCHANGED <<camera, trace>>
    /\ UNCHANGED trainVars
    /\ UNCHANGED evalVars
    /\ UNCHANGED inputVars

\* run.py:253-257
ShotSetCamera ==
    /\ pc = "shot_frame"
    /\ IF i < Len(screenshot_frames)
       THEN LET idx == IntOf(screenshot_frames[i + 1]) IN
            IF idx < Len(ref_transforms.frames)
            THEN /\ camera' = StripLastRow(ref_transforms.frames[idx + 1].transform_matrix)
                 /\ trace' = Append(trace, <<"set_nerf_camera_matrix", camera'>>)
                 /\ pc' = "shot_render"
            ELSE \* IndexError: list index out of range
                 /\ pc' = "error"
                 /\ UNCHANGED <<camera, trace>>
       ELSE /\ pc' = "done"
            /\ UNCHANGED <<camera, trace>>
    /\ UNCHANGED <<i, screenshot_frames>>
    /\ UNCHANGED trainVars
    /\ UNCHANGED evalVars
    /\ UNCHANGED inputVars

\* run.py:258-262
ShotRender ==
    /\ pc = "shot_render"
    /\ LET f       == ref_transforms.frames[IntOf(screenshot_frames[i + 1]) + 1]
           outname == Join(screenshot_dir, Basename(f.file_path))
           need    == {k \in {"w", "h"} :
                         (IF k = "w" THEN args.screenshot_w ELSE args.screenshot_h) = 0}
       IN  IF need \subseteq DOMAIN ref_transforms
           THEN /\ trace' = trace \o
                       << <<"render",
                            IF args.screenshot_w # 0 THEN args.screenshot_w
                                                     ELSE ref_transforms.w,
                            IF args.screenshot_h # 0 THEN args.screenshot_h
                                                     ELSE ref_transforms.h,
                            args.screenshot_spp>>,
                          <<"write_image", outname>> >>
                /\ i' = i + 1
                /\ pc' = "shot_frame"
           ELSE \* KeyError: the manifest declares no "w" / "h"
                /\ pc' = "error"
                /\ UNCHANGED <<trace, i>>
    /\ UNCHANGED <<camera, screenshot_frames>>
    /\ UNCHANGED trainVars
    /\ UNCHANGED evalVars
    /\ UNCHANGED inputVars

\* run.py:264-269
ShotSingle ==
    /\ pc = "shot_single"
    /\ LET outname == Join(screenshot_dir, scene \o <<"_">> \o network_stem) IN
          trace' = trace \o
              << <<"render", args.screenshot_w, args.screenshot_h,
                   args.screenshot_spp>>,
                 <<"write_image", outname \o Ext("png")>> >>
    /\ pc' = "done"
    /\ UNCHANGED <<camera, i, screenshot_frames>>
    /\ UNCHANGED trainVars
    /\ UNCHANGED evalVars
    /\ UNCHANGED inputVars

(* ======================= inputs and specifications ==================== *)
\* frames a manifest may hold: a bare name, a "./name" path and a name with
\* its extension; 4x4 matrices and one 3x4 matrix
FrameChoices ==
    { [file_path |-> <<"frame_01">>,          transform_matrix |-> Mat("a", 4)],
      [file_path |-> <<".", "/", "r_0">>,     transform_matrix |-> Mat("b", 4)],
      [file_path |-> <<"r_1", ".", "jpg">>,   transform_matrix |-> Mat("c", 3)] }

TestManifests ==
    { [camera_angle_x |-> 1, frames |-> fs] : fs \in SeqsUpTo(FrameChoices, MaxFrames) }

RefManifests ==
    { [camera_angle_x |-> 1, frames |-> fs] : fs \in SeqsUpTo(FrameChoices, MaxFrames) }
    \cup
    { [camera_angle_x |-> 1, w |-> 8, h |-> 6, frames |-> fs] :
          fs \in SeqsUpTo(FrameChoices, MaxFrames) }

\* files that may exist under data_dir
DiskFiles ==
    { Join(data_dir, <<"frame_01">> \o Ext("png")),
      Join(data_dir, <<"frame_01">> \o Ext("jpg")),
      Join(data_dir, <<"frame_01">> \o Ext("png") \o Ext("exr")),
      Join(data_dir, <<".", "/", "r_0">> \o Ext("jpg")),
      Join(data_dir, <<".", "/", "r_0">> \o Ext("exr")),
      Join(data_dir, <<"r_1", ".", "jpg">>) }

\* --screenshot_frames: absent (None), given empty, or given with indices
FrameRequests ==
    { [none |-> TRUE,  items |-> <<>>],
      [none |-> FALSE, items |-> <<>>],
      [none |-> FALSE, items |-> << <<"str", "0">> >>],
      [none |-> FALSE, items |-> << <<"str", "1">>, <<"str", "0">> >>] }

ArgsOf(G, T, N, L, S, TT, ST, SF, W, H) ==
    [gui : G, train : T, n_steps : N, load_snapshot : L, save_snapshot : S,
     test_transforms : TT, screenshot_transforms : ST, screenshot_frames : SF,
     screenshot_w : W, screenshot_h : H, screenshot_spp : {ScreenshotSpp}]

\* the state at run.py:145, before the training loop
InitFrom(A, TM, RM, Disks) ==
    /\ args \in A
    /\ test_transforms \in (IF args.test_transforms THEN TM ELSE {EmptyDict})
    /\ ref_transforms \in (IF args.screenshot_transforms THEN RM ELSE {EmptyDict})
    /\ disk \in (IF args.test_transforms THEN Disks ELSE {{}})
    /\ pc = "start"
    /\ training_step \in (IF args.load_snapshot THEN 0..MaxStep ELSE {0})
    /\ shall_train = InitialShallTrain(args)
    /\ trace = IF args.load_snapshot
               THEN << <<"load_snapshot">> >>
               ELSE << <<"reload_network_from_file">> >>
    /\ camera = <<>>
    /\ n_steps = 0
    /\ old_training_step = 0
    /\ t_n = 0
    /\ t_log = <<>>
    /\ ticks = 0
    /\ i = 0
    /\ ref_fname = <<>>
    /\ acc = EmptyDict
    /\ psnrs = <<>>
    /\ summary = EmptyDict
    /\ screenshot_frames = <<>>

NoFrames == [none |-> TRUE, items |-> <<>>]

(* ---- the training loop alone: every command line that only trains ---- *)
InitTrain ==
    InitFrom(ArgsOf(BOOLEAN, BOOLEAN, {-1, 0, 1, MaxStep}, BOOLEAN, BOOLEAN,
                    {FALSE}, {FALSE}, {NoFrames}, {0}, {0}),
             {EmptyDict}, {EmptyDict}, {{}})
NextTrain ==
    \/ TrainingSetup
    \/ Frame
    \/ WantRepl
    \/ CheckDone
    \/ ProgressReset
    \/ ProgressUpdate
    \/ SaveSnapshot
SpecTrain == InitTrain /\ [][NextTrain]_vars

(* ---- the evaluation alone: --n_steps 0 --test_transforms ... ---- *)
InitEval ==
    InitFrom(ArgsOf({FALSE}, {FALSE}, {0}, {FALSE}, {FALSE},
                    {TRUE}, {FALSE}, {NoFrames}, {0}, {0}),
             TestManifests, {EmptyDict}, SUBSET DiskFiles)
NextEval ==
    \/ TrainingSetup
    \/ SaveSnapshot
    \/ EvalSetup
    \/ EvalResolve
    \/ EvalSetCamera
    \/ EvalRender
    \/ EvalAccumulate
    \/ EvalSummary
SpecEval == InitEval /\ [][NextEval]_vars

(* ---- the screenshot batch alone: --n_steps 0 --screenshot_* ... ---- *)
InitShot ==
    InitFrom(ArgsOf({FALSE}, {FALSE}, {0}, {FALSE}, {FALSE},
                    {FALSE}, BOOLEAN, FrameRequests, {0, 64}, {0, 48}),
             {EmptyDict}, RefManifests, {{}})
NextShot ==
    \/ TrainingSetup
    \/ SaveSnapshot
    \/ EvalSetup
    \/ ShotSetup
    \/ ShotSetCamera
    \/ ShotRender
    \/ ShotSingle
SpecShot == InitShot /\ [][NextShot]_vars

(* ---- the whole script, on a few command lines of every kind ---- *)
FullFrames ==
    << [file_path |-> <<".", "/", "r_0">>, transform_matrix |-> Mat("b", 4)] >>
FullManifests ==
    { [camera_angle_x |-> 1, frames |-> FullFrames] }
FullRefManifests ==
    { [camera_angle_x |-> 1, w |-> 8, h |-> 6, frames |-> FullFrames] }
Init ==
    InitFrom(ArgsOf(BOOLEAN, {TRUE}, {0, 2}, BOOLEAN, BOOLEAN,
                    BOOLEAN, BOOLEAN,
                    {[none |-> FALSE, items |-> << <<"str", "0">> >>]},
                    {64}, {0}),
             FullManifests, FullRefManifests, {DiskFiles})
Next ==
    \/ TrainingSetup
    \/ Frame
    \/ WantRepl
    \/ CheckDone
    \/ ProgressReset
    \/ ProgressUpdate
    \/ SaveSnapshot
    \/ EvalSetup
    \/ EvalResolve
    \/ EvalSetCamera
    \/ EvalRender
    \/ EvalAccumulate
    \/ EvalSummary
    \/ ShotSetup
    \/ ShotSetCamera
    \/ ShotRender
    \/ ShotSingle
Spec == Init /\ [][Next]_vars

(* =============================== claims =============================== *)

(* ------------------------- training loop (SpecTrain) ------------------ *)

\* C1: every increment passed to the progress display is >= 0; in an
\* iteration whose current step is below the recorded previous step, or whose
\* recorded previous step is 0, the display and the recorded previous step are
\* reset to zero before that iteration's increment is accumulated.
C1_ProgressIncrements ==
    /\ [](\A k \in 1..Len(t_log) : t_log[k][1] = "update" => t_log[k][2] >= 0)
    /\ [](pc = "update" =>
            \/ old_training_step = 0 /\ t_n = 0
            \/ 0 < old_training_step /\ old_training_step <= training_step)
    /\ [][pc = "reset" /\ (training_step < old_training_step \/ old_training_step = 0)
            => /\ pc' = "update"
               /\ t_n' = 0
               /\ old_training_step' = 0
               /\ t_log' = Append(t_log, <<"reset", 0>>)]_vars

\* a reset in mid-run: a positive increment, then a lower step resets the
\* display, then the next positive increment is accumulated from zero
C1_Witness ==
    \E k \in 2..(Len(t_log) - 1) :
        /\ t_log[k - 1][1] = "update" /\ t_log[k - 1][2] > 0
        /\ t_log[k][1] = "reset"
        /\ t_log[k + 1][1] = "update" /\ t_log[k + 1][2] > 0
        /\ t_n = t_log[k + 1][2]

\* C2: with step_limit > 0, without a window the loop exits in the first
\* iteration whose check sees current step >= step_limit; with a window that
\* check never exits but clears shall_train, and the loop is left only when
\* the frame tick returns false.
C2_TerminationPolicy ==
    /\ [][pc = "check" /\ n_steps > 0 /\ training_step >= n_steps
            => IF args.gui
               THEN pc' = "reset" /\ shall_train' = FALSE
               ELSE pc' = "save"]_vars
    /\ [][pc = "check" /\ training_step < n_steps
            => pc' = "reset" /\ shall_train' = shall_train]_vars
    /\ [][args.gui /\ pc \in LoopPcs /\ pc' \notin LoopPcs
            => pc = "frame" /\ Last(trace') = <<"frame">>]_vars

\* with a window and --train: the limit was reached in a later iteration, the
\* flag is cleared and the loop goes on to its progress update
C2_Witness ==
    /\ args.gui /\ args.train
    /\ pc = "update"
    /\ ticks >= 2
    /\ n_steps > 0 /\ training_step = n_steps
    /\ ~shall_train

\* C9: after every iteration that reaches the progress update the display's
\* total and the recorded previous step both equal the Renderer's current
\* step; without a window the total stays strictly below step_limit.
C9_ProgressEqualsStep ==
    /\ (pc = "frame" /\ ticks > 0
          => t_n = training_step /\ old_training_step = training_step)
    /\ (~args.gui /\ pc # "start" /\ n_steps > 0 => t_n < n_steps)

\* two updates were made without a window; the total is one short of the limit
C9_Witness ==
    /\ ~args.gui
    /\ pc = "frame"
    /\ ticks >= 2
    /\ Len(t_log) >= 3
    /\ t_n = training_step /\ t_n = n_steps - 1 /\ t_n > 0

(* --------------------------- evaluation (SpecEval) -------------------- *)
CameraRenderCalls(tr) ==
    SelectSeq(tr, LAMBDA e : e[1] \in {"set_nerf_camera_matrix", "render"})

ExpectedEvalCall(frames, k) ==
    IF k % 2 = 1
    THEN LET m == frames[(k + 1) \div 2].transform_matrix
         IN  <<"set_nerf_camera_matrix", SubSeq(m, 1, Len(m) - 1)>>
    ELSE <<"render", RefW, RefH, EvalSpp>>

\* C5: an evaluation over N frames whose references all load issues exactly N
\* renders, one per frame in manifest order, each immediately preceded by
\* setting the camera to that frame's matrix without its last row; the
\* accumulator's count is N at the end; no training tick is issued.
C5_EvalRenders ==
    args.test_transforms /\ pc \in (EvalPcs \cup {"shot", "error"}) =>
        LET calls  == CameraRenderCalls(trace)
            frames == test_transforms.frames
        IN  /\ Len(calls) <= 2 * Len(frames)
            /\ \A k \in 1..Len(calls) : calls[k] = ExpectedEvalCall(frames, k)
            /\ \A k \in 1..Len(trace) :
                  trace[k][1] = "render" =>
                      k > 1 /\ trace[k - 1][1] = "set_nerf_camera_matrix"
            /\ \A k \in 1..Len(trace) : trace[k][1] # "frame"
            /\ ~shall_train
            /\ (pc = "shot" => /\ Len(calls) = 2 * Len(frames)
                               /\ acc.totcount = Len(frames))

\* a finished evaluation of two different frames
C5_Witness ==
    /\ pc = "shot"
    /\ args.test_transforms
    /\ Len(test_transforms.frames) = 2
    /\ test_transforms.frames[1] # test_transforms.frames[2]
    /\ acc.totcount = 2
    /\ Len(CameraRenderCalls(trace)) = 4

\* a file_path with no ".ext" suffix
IsBasePath(p) == Len(p) < 2 \/ p[Len(p) - 1] # "."

\* C3: for a file_path without extension the resolver probes base.png,
\* base.jpg, base.jpeg, base.exr in that order, selects the first that exists
\* and fails when none exists.
C3_FallbackOrder ==
    /\ pc \in {"eval_camera", "error"}
    /\ i < Len(test_transforms.frames)
    /\ IsBasePath(test_transforms.frames[i + 1].file_path)
    => LET base  == Join(data_dir, test_transforms.frames[i + 1].file_path)
           cands == << base \o Ext("png"), base \o Ext("jpg"),
                       base \o Ext("jpeg"), base \o Ext("exr") >>
           found == {k \in 1..4 : cands[k] \in disk}
       IN  IF found = {}
           THEN pc = "error"
           ELSE /\ pc = "eval_camera"
                /\ \E k \in found :
                      /\ ref_fname = cands[k]
                      /\ \A j \in found : k <= j

SeqMin(q) == CHOOSE x \in {q[k] : k \in 1..Len(q)} : \A k \in 1..Len(q) : x <= q[k]
SeqMax(q) == CHOOSE x \in {q[k] : k \in 1..Len(q)} : \A k \in 1..Len(q) : x >= q[k]

\* C6: after a non-empty sequence of frames the reported min_psnr and max_psnr
\* are the minimum and the maximum of the per-frame PSNR values.
C6_MinMaxPsnr ==
    pc = "shot" /\ args.test_transforms /\ Len(psnrs) > 0 =>
        /\ summary.minpsnr = SeqMin(psnrs)
        /\ summary.maxpsnr = SeqMax(psnrs)

\* C7: the summary reported at the end of an evaluation holds mean_psnr,
\* psnr_of_mean_mse, mean_ssim, min_psnr and max_psnr, and mean_ssim is 0.
C7_SummaryFields ==
    pc = "shot" /\ args.test_transforms =>
        /\ {"psnr", "psnr_avgmse", "ssim", "minpsnr", "maxpsnr"} \subseteq DOMAIN summary
        /\ summary.ssim = 0

(* --------------------------- screenshots (SpecShot) ------------------- *)
RenderCalls(tr) == SelectSeq(tr, LAMBDA e : e[1] = "render")
CameraCalls(tr) == SelectSeq(tr, LAMBDA e : e[1] = "set_nerf_camera_matrix")
WriteCalls(tr) == SelectSeq(tr, LAMBDA e : e[1] = "write_image")

ManifestSupplied == args.screenshot_w # 0 /\ DOMAIN ref_transforms # {}
ResolutionKnown ==
    /\ args.screenshot_w # 0 \/ "w" \in DOMAIN ref_transforms
    /\ args.screenshot_h # 0 \/ "h" \in DOMAIN ref_transforms
RequestedIndices ==
    [k \in 1..Len(args.screenshot_frames.items) |->
        DigitValue[args.screenshot_frames.items[k][2]]]
IndicesRequested ==
    /\ ~args.screenshot_frames.none
    /\ Len(args.screenshot_frames.items) > 0
    /\ \A k \in 1..Len(RequestedIndices) :
          RequestedIndices[k] < Len(ref_transforms.frames)

\* the frames with indices idxs were rendered, in that order, each to
\* <output_dir>/<basename(file_path)>
RenderedExactly(idxs) ==
    LET frames == ref_transforms.frames IN
    /\ pc = "done"
    /\ CameraCalls(trace) =
          [k \in 1..Len(idxs) |->
              LET m == frames[idxs[k] + 1].transform_matrix
              IN  <<"set_nerf_camera_matrix", SubSeq(m, 1, Len(m) - 1)>>]
    /\ Len(RenderCalls(trace)) = Len(idxs)
    /\ WriteCalls(trace) =
          [k \in 1..Len(idxs) |->
              <<"write_image",
                Join(screenshot_dir, Basename(frames[idxs[k] + 1].file_path))>>]

\* C4: with a manifest and no frame indices requested every frame of the
\* manifest is rendered exactly once, in manifest order, to
\* <output_dir>/<basename(file_path)>; with indices requested exactly those
\* frames are rendered, in the requested order.
C4_AllFramesByDefault ==
    pc \in {"done", "error"} /\ ManifestSupplied /\ ResolutionKnown =>
        IF args.screenshot_frames.none \/ Len(args.screenshot_frames.items) = 0
        THEN RenderedExactly([k \in 1..Len(ref_transforms.frames) |-> k - 1])
        ELSE IndicesRequested => RenderedExactly(RequestedIndices)

\* C8: with a manifest supplied each of width and height is the flag's value
\* when that is non-zero and the manifest's w / h otherwise: a manifest that
\* declares w and h still gives one render per requested frame, at its
\* resolution, when no width / height flag is given.
C8_ResolutionSelection ==
    /\ pc \in {"done", "error"}
    /\ DOMAIN ref_transforms # {}
    /\ {"w", "h"} \subseteq DOMAIN ref_transforms
    /\ IndicesRequested
    => /\ pc = "done"
       /\ RenderCalls(trace) =
             [k \in 1..Len(RequestedIndices) |->
                 <<"render",
                   IF args.screenshot_w # 0 THEN args.screenshot_w ELSE ref_transforms.w,
                   IF args.screenshot_h # 0 THEN args.screenshot_h ELSE ref_transforms.h,
                   args.screenshot_spp>>]

(* ------------------------ the whole script (Spec) --------------------- *)
LoopCalls == {"frame", "repl"}
SetupCalls == {"load_snapshot", "reload_network_from_file"}
OutputCalls == {"set_nerf_camera_matrix", "render", "write_image"}

\* C10: whenever step_limit != 0 the loop issues a frame tick before its
\* first termination check, also when the step is already at the limit; in an
\* iteration the order is frame tick, at most one interactive-hook call,
\* termination check; after the loop no frame tick is issued; the snapshot
\* save comes after the loop and before every evaluation or screenshot render.
C10_Ordering ==
    /\ [][pc = "start" /\ args.n_steps # 0 => pc' = "frame"]_vars
    /\ [](pc = "check" => ticks >= 1 /\ Last(trace)[1] \in LoopCalls)
    /\ [][pc = "check" => trace' = trace]_vars
    /\ [](\A k \in 1..Len(trace) :
            trace[k][1] = "repl" => k > 1 /\ trace[k - 1][1] = "frame")
    /\ [](\A j, k \in 1..Len(trace) :
            j < k /\ trace[k][1] \in LoopCalls =>
                trace[j][1] \in (LoopCalls \cup SetupCalls))
    /\ [][pc \notin (LoopPcs \cup {"start"}) => ticks' = ticks]_vars
    /\ [](\A k \in 1..Len(trace) :
            args.save_snapshot /\ trace[k][1] \in OutputCalls =>
                \E j \in 1..(k - 1) : trace[j][1] = "save_snapshot")
    /\ [](\A j, k \in 1..Len(trace) :
            j < k /\ trace[k][1] = "save_snapshot" =>
                trace[j][1] \in (LoopCalls \cup SetupCalls))

\* a snapshot already at the limit was loaded: one tick and one hook call ran,
\* the loop broke, the snapshot was saved and the screenshot rendered after it
C10_Witness ==
    /\ pc = "done"
    /\ ~args.gui /\ args.load_snapshot /\ args.save_snapshot
    /\ ticks = 1
    /\ Len(trace) >= 6
    /\ trace[1] = <<"load_snapshot">>
    /\ trace[2] = <<"frame">>
    /\ trace[3] = <<"repl">>
    /\ trace[4] = <<"save_snapshot">>
    /\ Len(RenderCalls(trace)) >= 1
====
